---- MODULE Spec2Model ----
(***************************************************************************)
(* Model of the EC2 instance-metadata client (src/src/lib.rs):             *)
(* InstanceMetadataClient::get and the helpers it calls.                   *)
(*                                                                         *)
(* Rust strings (response bodies, the token, region codes) are sequences   *)
(* of one-character strings, so that starts_with, emptiness and JSON       *)
(* parsing are computed on the text.  URLs and diagnostic messages are     *)
(* only ever compared for equality and are TLA+ strings.                   *)
(***************************************************************************)
EXTENDS Integers, Sequences, FiniteSets, TLC

(***************************************************************************)
(* Result<T>: Ok(v) / Err(e)                                               *)
(***************************************************************************)
Ok(v) == [ok |-> TRUE, val |-> v]

Err(e) == [ok |-> FALSE, err |-> e]

(***************************************************************************)
(* enum Error (lib.rs 85-91) and the From conversions (lib.rs 93-109)      *)
(***************************************************************************)
HttpRequest(s) == [kind |-> "HttpRequest", arg |-> s]

IoError(s) == [kind |-> "IoError", arg |-> s]

UnknownAvailabilityZone(s) == [kind |-> "UnknownAvailabilityZone", arg |-> s]

JsonError(s) == [kind |-> "JsonError", arg |-> s]

NotFound(s) == [kind |-> "NotFound", arg |-> s]

\* impl From<ureq::Error> for Error; the Debug rendering of the transport
\* error is modelled by the name of its variant.
FromUreqError(error) == HttpRequest(error)

\* impl From<std::io::Error> for Error
FromIoError(error) == IoError(error)

(***************************************************************************)
(* enum MetadataUrls and its conversion to the URL string (lib.rs 5-36)    *)
(***************************************************************************)
MetadataUrls ==
    {"InstanceId", "AmiId", "AccountId", "AvailabilityZone",
     "InstanceType", "Hostname", "LocalHostname", "PublicHostname"}

\* the table with the Hostname URL pasted into the LocalHostname arm
UrlOfPastedArm(field) ==
    CASE field = "InstanceId" -> "http://169.254.169.254/latest/meta-data/instance-id"
      [] field = "AmiId" -> "http://169.254.169.254/latest/meta-data/ami-id"
      [] field = "AccountId" ->
            "http://169.254.169.254/latest/meta-data/identity-credentials/ec2/info"
      [] field = "AvailabilityZone" ->
            "http://169.254.169.254/latest/meta-data/placement/availability-zone"
      [] field = "InstanceType" -> "http://169.254.169.254/latest/meta-data/instance-type"
      [] field = "Hostname" -> "http://169.254.169.254/latest/meta-data/hostname"
      [] field = "LocalHostname" -> "http://169.254.169.254/latest/meta-data/hostname"
      [] field = "PublicHostname" ->
            "http://169.254.169.254/latest/meta-data/public-hostname"

UrlOf(field) ==
    CASE field = "InstanceId" -> "http://169.254.169.254/latest/meta-data/instance-id"
      [] field = "AmiId" -> "http://169.254.169.254/latest/meta-data/ami-id"
      [] field = "AccountId" ->
            "http://169.254.169.254/latest/meta-data/identity-credentials/ec2/info"
      [] field = "AvailabilityZone" ->
            "http://169.254.169.254/latest/meta-data/placement/availability-zone"
      [] field = "InstanceType" -> "http://169.254.169.254/latest/meta-data/instance-type"
      [] field = "Hostname" -> "http://169.254.169.254/latest/meta-data/hostname"
      [] field = "LocalHostname" -> "http://169.254.169.254/latest/meta-data/local-hostname"
      [] field = "PublicHostname" ->
            "http://169.254.169.254/latest/meta-data/public-hostname"

TOKEN_API_URL == "http://169.254.169.254/latest/api/token"

(***************************************************************************)
(* availability_zone_to_region (lib.rs 48-80)                              *)
(***************************************************************************)
\* starts_with that leaves the last character of the prefix uncompared
StartsWithStem(s, prefix) ==
    /\ Len(prefix) <= Len(s)
    /\ SubSeq(s, 1, Len(prefix) - 1) = SubSeq(prefix, 1, Len(prefix) - 1)

\* str::starts_with
StartsWith(s, prefix) ==
    /\ Len(prefix) <= Len(s)
    /\ SubSeq(s, 1, Len(prefix)) = prefix

\* the list with cn-north-1 entered without its number
REGIONSWithShortEntry ==
    <<
       <<"a","p","-","s","o","u","t","h","-","1">>,
       <<"e","u","-","w","e","s","t","-","3">>,
       <<"e","u","-","n","o","r","t","h","-","1">>,
       <<"e","u","-","w","e","s","t","-","2">>,
       <<"e","u","-","w","e","s","t","-","1">>,
       <<"a","p","-","n","o","r","t","h","e","a","s","t","-","3">>,
       <<"a","p","-","n","o","r","t","h","e","a","s","t","-","2">>,
       <<"a","p","-","n","o","r","t","h","e","a","s","t","-","1">>,
       <<"s","a","-","e","a","s","t","-","1">>,
       <<"c","a","-","c","e","n","t","r","a","l","-","1">>,
       <<"a","p","-","s","o","u","t","h","e","a","s","t","-","1">>,
       <<"a","p","-","s","o","u","t","h","e","a","s","t","-","2">>,
       <<"e","u","-","c","e","n","t","r","a","l","-","1">>,
       <<"u","s","-","e","a","s","t","-","1">>,
       <<"u","s","-","e","a","s","t","-","2">>,
       <<"u","s","-","w","e","s","t","-","1">>,
       <<"u","s","-","w","e","s","t","-","2">>,
       <<"c","n","-","n","o","r","t","h">>,
       <<"c","n","-","n","o","r","t","h","w","e","s","t","-","1">>
    >>

REGIONS ==
    <<
       <<"a","p","-","s","o","u","t","h","-","1">>,
       <<"e","u","-","w","e","s","t","-","3">>,
       <<"e","u","-","n","o","r","t","h","-","1">>,
       <<"e","u","-","w","e","s","t","-","2">>,
       <<"e","u","-","w","e","s","t","-","1">>,
       <<"a","p","-","n","o","r","t","h","e","a","s","t","-","3">>,
       <<"a","p","-","n","o","r","t","h","e","a","s","t","-","2">>,
       <<"a","p","-","n","o","r","t","h","e","a","s","t","-","1">>,
       <<"s","a","-","e","a","s","t","-","1">>,
       <<"c","a","-","c","e","n","t","r","a","l","-","1">>,
       <<"a","p","-","s","o","u","t","h","e","a","s","t","-","1">>,
       <<"a","p","-","s","o","u","t","h","e","a","s","t","-","2">>,
       <<"e","u","-","c","e","n","t","r","a","l","-","1">>,
       <<"u","s","-","e","a","s","t","-","1">>,
       <<"u","s","-","e","a","s","t","-","2">>,
       <<"u","s","-","w","e","s","t","-","1">>,
       <<"u","s","-","w","e","s","t","-","2">>,
       <<"c","n","-","n","o","r","t","h","-","1">>,
       <<"c","n","-","n","o","r","t","h","w","e","s","t","-","1">>
    >>

\* the loop with the arguments of starts_with exchanged
RECURSIVE RegionScanSwappedArguments(_, _)
RegionScanSwappedArguments(availability_zone, i) ==
    IF i > Len(REGIONS)
    THEN Err(UnknownAvailabilityZone(availability_zone))
    ELSE IF StartsWith(REGIONS[i], availability_zone)
         THEN Ok(REGIONS[i])
         ELSE RegionScanSwappedArguments(availability_zone, i + 1)

\* the loop falling back to us-east-1 when no entry matches
RECURSIVE RegionScanWithDefault(_, _)
RegionScanWithDefault(availability_zone, i) ==
    IF i > Len(REGIONS)
    THEN Ok(REGIONS[14])
    ELSE IF StartsWith(availability_zone, REGIONS[i])
         THEN Ok(REGIONS[i])
         ELSE RegionScanWithDefault(availability_zone, i + 1)

\* the loop `for region in REGIONS`, from position i of the list
RECURSIVE RegionScan(_, _)
RegionScan(availability_zone, i) ==
    IF i > Len(REGIONS)
    THEN Err(UnknownAvailabilityZone(availability_zone))
    ELSE IF StartsWith(availability_zone, REGIONS[i])
         THEN Ok(REGIONS[i])
         ELSE RegionScan(availability_zone, i + 1)

availability_zone_to_region(availability_zone) ==
    RegionScan(availability_zone, 1)

(***************************************************************************)
(* Option<T>: Some(v) is <<v>>, None is <<>>                               *)
(***************************************************************************)
Some(v) == <<v>>

None == <<>>

(***************************************************************************)
(* serde_json::from_str::<Value> (called at lib.rs 39-40), on the JSON     *)
(* texts of the model: objects, arrays, strings, integers, true, false and *)
(* null.  The texts of the model hold no backslash, no control character   *)
(* and no fraction or exponent, so string escapes and floating-point       *)
(* syntax are not parsed.  A parse step returns the value and the position *)
(* after it, or the code of the syntax error.                              *)
(***************************************************************************)
Parsed(v, next) == [ok |-> TRUE, val |-> v, next |-> next]

SyntaxError(code) == [ok |-> FALSE, err |-> code]

JsonNull == [t |-> "Null"]

JsonBool(b) == [t |-> "Bool", b |-> b]

JsonNumber(lexeme) == [t |-> "Number", n |-> lexeme]

JsonString(chars) == [t |-> "String", s |-> chars]

JsonArray(items) == [t |-> "Array", items |-> items]

JsonObject(map) == [t |-> "Object", map |-> map]

Whitespace == {" ", "\n", "\t", "\r"}

Digits == {"0", "1", "2", "3", "4", "5", "6", "7", "8", "9"}

RECURSIVE SkipWs(_, _)
SkipWs(s, i) ==
    IF i <= Len(s) /\ s[i] \in Whitespace THEN SkipWs(s, i + 1) ELSE i

\* position of the first character from i on that is not a digit
RECURSIVE SkipDigits(_, _)
SkipDigits(s, i) ==
    IF i <= Len(s) /\ s[i] \in Digits THEN SkipDigits(s, i + 1) ELSE i

\* s[i] is "-" or a digit
ParseNumber(s, i) ==
    LET d == IF s[i] = "-" THEN i + 1 ELSE i
        e == SkipDigits(s, d)
    IN  IF e = d
        THEN SyntaxError("InvalidNumber")
        ELSE IF s[d] = "0" /\ e > d + 1
             THEN SyntaxError("InvalidNumber")
             ELSE Parsed(JsonNumber(SubSeq(s, i, e - 1)), e)

\* position of the closing quote of the string whose text starts at i,
\* Len(s) + 1 when the text ends first
RECURSIVE ClosingQuote(_, _)
ClosingQuote(s, i) ==
    IF i > Len(s) \/ s[i] = "\"" THEN i ELSE ClosingQuote(s, i + 1)

\* the string taken one character too early, its opening quote included
ParseStringWithQuote(s, i) ==
    LET q == ClosingQuote(s, i + 1)
    IN  IF q > Len(s)
        THEN SyntaxError("EofWhileParsingString")
        ELSE Parsed(JsonString(SubSeq(s, i, q - 1)), q + 1)

\* s[i] is the opening quote
ParseString(s, i) ==
    LET q == ClosingQuote(s, i + 1)
    IN  IF q > Len(s)
        THEN SyntaxError("EofWhileParsingString")
        ELSE Parsed(JsonString(SubSeq(s, i + 1, q - 1)), q + 1)

ParseIdent(s, i, word, v) ==
    IF StartsWith(SubSeq(s, i, Len(s)), word)
    THEN Parsed(v, i + Len(word))
    ELSE SyntaxError("ExpectedSomeIdent")

\* Map::insert: a later member with the same key replaces the earlier one
MapInsert(map, key, v) ==
    [k \in DOMAIN map \cup {key} |-> IF k = key THEN v ELSE map[k]]

RECURSIVE ParseValue(_, _)
RECURSIVE ParseMembers(_, _, _)
RECURSIVE ParseItems(_, _, _)

\* the members of an object, from the key expected at i, added to map
ParseMembers(s, i, map) ==
    IF i > Len(s)
    THEN SyntaxError("EofWhileParsingObject")
    ELSE IF s[i] # "\""
    THEN SyntaxError("KeyMustBeAString")
    ELSE
      LET key == ParseString(s, i)
      IN  IF ~key.ok THEN key ELSE
      LET c == SkipWs(s, key.next)
      IN  IF c > Len(s) THEN SyntaxError("EofWhileParsingObject")
          ELSE IF s[c] # ":" THEN SyntaxError("ExpectedColon") ELSE
      LET v == ParseValue(s, SkipWs(s, c + 1))
      IN  IF ~v.ok THEN v ELSE
      LET e == SkipWs(s, v.next)
          m == MapInsert(map, key.val.s, v.val)
      IN  IF e > Len(s) THEN SyntaxError("EofWhileParsingObject")
          ELSE IF s[e] = "}" THEN Parsed(JsonObject(m), e + 1)
          ELSE IF s[e] = ","
               THEN LET n == SkipWs(s, e + 1)
                    IN  IF n <= Len(s) /\ s[n] = "}"
                        THEN SyntaxError("TrailingComma")
                        ELSE ParseMembers(s, n, m)
               ELSE SyntaxError("ExpectedObjectCommaOrEnd")

\* the items of an array, from the value expected at i, appended to items
ParseItems(s, i, items) ==
    LET v == ParseValue(s, i)
    IN  IF ~v.ok THEN v ELSE
    LET e == SkipWs(s, v.next)
        a == Append(items, v.val)
    IN  IF e > Len(s) THEN SyntaxError("EofWhileParsingList")
        ELSE IF s[e] = "]" THEN Parsed(JsonArray(a), e + 1)
        ELSE IF s[e] = ","
             THEN LET n == SkipWs(s, e + 1)
                  IN  IF n <= Len(s) /\ s[n] = "]"
                      THEN SyntaxError("TrailingComma")
                      ELSE ParseItems(s, n, a)
             ELSE SyntaxError("ExpectedListCommaOrEnd")

\* the value that starts at i (whitespace already skipped)
ParseValue(s, i) ==
    IF i > Len(s) THEN SyntaxError("EofWhileParsingValue")
    ELSE IF s[i] = "n" THEN ParseIdent(s, i, <<"n","u","l","l">>, JsonNull)
    ELSE IF s[i] = "t" THEN ParseIdent(s, i, <<"t","r","u","e">>, JsonBool(TRUE))
    ELSE IF s[i] = "f" THEN ParseIdent(s, i, <<"f","a","l","s","e">>, JsonBool(FALSE))
    ELSE IF s[i] = "-" \/ s[i] \in Digits THEN ParseNumber(s, i)
    ELSE IF s[i] = "\"" THEN ParseString(s, i)
    ELSE IF s[i] = "["
         THEN LET n == SkipWs(s, i + 1)
              IN  IF n <= Len(s) /\ s[n] = "]"
                  THEN Parsed(JsonArray(<<>>), n + 1)
                  ELSE ParseItems(s, n, <<>>)
    ELSE IF s[i] = "{"
         THEN LET n == SkipWs(s, i + 1)
              IN  IF n <= Len(s) /\ s[n] = "}"
                  THEN Parsed(JsonObject(<<>>), n + 1)
                  ELSE ParseMembers(s, n, <<>>)
    ELSE SyntaxError("ExpectedSomeValue")

\* serde_json::from_str: one value, then nothing but whitespace
from_str(s) ==
    LET v == ParseValue(s, SkipWs(s, 1))
    IN  IF ~v.ok THEN Err(v.err)
        ELSE IF SkipWs(s, v.next) <= Len(s)
             THEN Err("TrailingCharacters")
             ELSE Ok(v.val)

\* impl Index<&str> for Value: the member of an object, Null otherwise
ValueIndex(v, key) ==
    IF v.t = "Object" /\ key \in DOMAIN v.map THEN v.map[key] ELSE JsonNull

\* as_str that also renders a number as text
as_str_or_number(v) ==
    IF v.t = "String" THEN Some(v.s)
    ELSE IF v.t = "Number" THEN Some(v.n) ELSE None

\* Value::as_str
as_str(v) == IF v.t = "String" THEN Some(v.s) ELSE None

(***************************************************************************)
(* identity_credentials_to_account_id (lib.rs 38-46)                       *)
(***************************************************************************)
AccountIdKey == <<"A","c","c","o","u","n","t","I","d">>

identity_credentials_to_account_id(ident_creds) ==
    LET parsed == from_str(ident_creds)
    IN  IF ~parsed.ok
        THEN Err(JsonError(parsed.err))
        ELSE LET s == as_str(ValueIndex(parsed.val, AccountIdKey))
             IN  IF s # None
                 THEN Ok(s[1])
                 ELSE Err(JsonError("Missing AccountId field"))

(***************************************************************************)
(* The transport (ureq) and the metadata service.  A request is answered   *)
(* in one of three ways: send_empty()/call() returns Err(ureq::Error);     *)
(* it returns Ok(response) and body_mut().read_to_string() returns         *)
(* Err(ureq::Error); or both succeed and the body text is delivered.       *)
(* A transport error is named by its ureq::Error variant.                  *)
(***************************************************************************)
CallErrors == {"StatusCode", "Timeout", "Io"}

ReadErrors == {"Timeout", "Io"}

Responses(bodies) ==
    {[call |-> e, read |-> "None", body |-> <<>>] : e \in CallErrors}
    \cup {[call |-> "Ok", read |-> e, body |-> <<>>] : e \in ReadErrors}
    \cup {[call |-> "Ok", read |-> "Ok", body |-> b] : b \in bodies}

\* the token bodies the service may return (opaque to the client)
Tokens == {<<"t","1">>, <<"t","2">>}

\* the bodies the service may return for a plain-text field
Bodies == {<<>>, <<"i","p","-","1","0","-","0","-","0","-","1">>}

\* the bodies the service may return for identity-credentials/ec2/info
GoodDocuments ==
    {<<"{","\"","A","c","c","o","u","n","t","I","d","\"",":","\"","1","2","3","4","5","6","7","8","9","0","1","2","\"",",","\"","O","t","h","e","r","F","i","e","l","d","\"",":","1","}">>,
     <<"{","\"","O","t","h","e","r","F","i","e","l","d","\"",":","t","r","u","e",",","\"","A","c","c","o","u","n","t","I","d","\"",":","\"","7","\"","}">>,
     <<"{","\"","A","c","c","o","u","n","t","I","d","\"",":","\"","\"","}">>}

InvalidDocuments ==
    {<<"n","o","t","-","j","s","o","n">>,
     <<"{","\"","A","c","c","o","u","n","t","I","d","\"",":","\"","1","2","3","4","5","6","7","8","9","0","1","2","\"">>,
     <<"{","\"","A","c","c","o","u","n","t","I","d","\"",":","\"","1","2","3","4","5","6","7","8","9","0","1","2","\"","}","x">>,
     <<"{","\"","A","c","c","o","u","n","t","I","d","\"",":","\"","1","2","3","4","5","6","7","8","9","0","1","2","\"",",","}">>,
     <<>>}

MissingDocuments ==
    {<<"{","}">>,
     <<"{","\"","a","c","c","o","u","n","t","i","d","\"",":","\"","1","2","3","4","5","6","7","8","9","0","1","2","\"","}">>,
     <<"{","\"","I","n","f","o","\"",":","{","\"","A","c","c","o","u","n","t","I","d","\"",":","\"","1","2","3","4","5","6","7","8","9","0","1","2","\"","}","}">>,
     <<"[","\"","A","c","c","o","u","n","t","I","d","\"","]">>}

NonStringDocuments ==
    {<<"{","\"","A","c","c","o","u","n","t","I","d","\"",":","1","2","3","4","5","6","7","8","9","0","1","2","}">>,
     <<"{","\"","A","c","c","o","u","n","t","I","d","\"",":","n","u","l","l","}">>,
     <<"{","\"","A","c","c","o","u","n","t","I","d","\"",":","[","\"","1","2","3","4","5","6","7","8","9","0","1","2","\"","]","}">>}

IdentityDocuments ==
    GoodDocuments \cup InvalidDocuments \cup MissingDocuments \cup NonStringDocuments

\* the bodies the service may return for placement/availability-zone
KnownZones ==
    {<<"u","s","-","e","a","s","t","-","1","a">>,
     <<"c","n","-","n","o","r","t","h","w","e","s","t","-","1","b">>}

UnknownZones ==
    {<<"U","S","-","E","A","S","T","-","1","A">>,
     <<"x","u","s","-","e","a","s","t","-","1","a">>,
     <<"e","u","-","w","e","s","t","-","4","a">>,
     <<"m","a","r","s","-","w","e","s","t","-","1","a">>,
     <<"u","s","-","e","a","s","t","-">>,
     <<>>}

ZoneBodies == KnownZones \cup UnknownZones

\* the number of get() calls a behaviour makes
MaxCalls == 2

(***************************************************************************)
(* State                                                                   *)
(***************************************************************************)
VARIABLES
    pc,        \* where the get() call in progress stands: "idle" (none in
               \* progress), "token", or the field it fetches next
    locals,    \* the let-bindings of the get() call in progress, by name
    ret,       \* <<r>> once get() has returned r, <<>> during a call
    requests,  \* the requests the call has issued so far, in order, each
               \* with the header token it carried and the answer it got
    issued,    \* the tokens the service has delivered, in order
    calls,     \* the number of get() calls started
    puts,      \* the number of token PUT requests issued over all calls
    input,     \* the argument of the function under test (unit behaviours)
    out        \* <<r>> once the function under test returned r

vars == <<pc, locals, ret, requests, issued, calls, puts, input, out>>

Init ==
    /\ pc = "idle"
    /\ locals = <<>>
    /\ ret = <<>>
    /\ requests = <<>>
    /\ issued = <<>>
    /\ calls = 0
    /\ puts = 0
    /\ input = <<>>
    /\ out = <<>>

\* `let name = v;`
Bind(frame, name, v) ==
    [n \in DOMAIN frame \cup {name} |-> IF n = name THEN v ELSE frame[n]]

\* the record of one exchange with the service
Exchange(method, url, token, resp) ==
    [method |-> method, url |-> url, token |-> token,
     call |-> resp.call, read |-> resp.read, body |-> resp.body]

(***************************************************************************)
(* get_token (lib.rs 156-167): `?` on send_empty() and on read_to_string() *)
(* converts the ureq::Error with From<ureq::Error>.                        *)
(***************************************************************************)
\* get_token that takes an unreadable body for an empty token
get_token_unread_body_as_empty(resp) ==
    IF resp.call # "Ok" THEN Err(FromUreqError(resp.call))
    ELSE Ok(resp.body)

get_token(resp) ==
    IF resp.call # "Ok" THEN Err(FromUreqError(resp.call))
    ELSE IF resp.read # "Ok" THEN Err(FromUreqError(resp.read))
    ELSE Ok(resp.body)

(***************************************************************************)
(* One mandatory field fetch of get (lib.rs 172-180 and alike):            *)
(*   match agent.get(url).header(..).call() {                              *)
(*       Ok(mut resp) => resp.body_mut().read_to_string()?,                *)
(*       Err(_) => return Err(Error::NotFound(url)),                       *)
(*   }                                                                     *)
(* The agent is built with config_builder()/new_agent() and bodies are read *)
(* with body_mut().read_to_string(): in that ureq API read_to_string       *)
(* returns Result<String, ureq::Error>, so `?` converts its error with     *)
(* From<ureq::Error>; no call of get yields a std::io::Error.              *)
(***************************************************************************)
\* the field fetch that takes an unreadable body for an empty one
FieldResultUnreadAsEmpty(field, resp) ==
    IF resp.call # "Ok" THEN Err(NotFound(UrlOf(field)))
    ELSE Ok(resp.body)

\* the field fetch that takes a failed request for an empty body
FieldResultFailedAsEmpty(field, resp) ==
    IF resp.call # "Ok" THEN Ok(<<>>)
    ELSE IF resp.read # "Ok" THEN Err(FromUreqError(resp.read))
    ELSE Ok(resp.body)

\* the field fetch with the InstanceId arm's error pasted into every arm
FieldResultPastedUrl(field, resp) ==
    IF resp.call # "Ok" THEN Err(NotFound(UrlOf("InstanceId")))
    ELSE IF resp.read # "Ok" THEN Err(FromUreqError(resp.read))
    ELSE Ok(resp.body)

FieldResult(field, resp) ==
    IF resp.call # "Ok" THEN Err(NotFound(UrlOf(field)))
    ELSE IF resp.read # "Ok" THEN Err(FromUreqError(resp.read))
    ELSE Ok(resp.body)

\* the PublicHostname fetch handled like a mandatory field
PublicHostnameResultMandatory(resp) ==
    IF resp.call # "Ok" THEN Err(NotFound(UrlOf("PublicHostname")))
    ELSE IF resp.read # "Ok" THEN Err(FromUreqError(resp.read))
    ELSE Ok(Some(resp.body))

\* the PublicHostname fetch (lib.rs 251-259): Err(_) => None
PublicHostnameResult(resp) ==
    IF resp.call # "Ok" THEN Ok(None)
    ELSE IF resp.read # "Ok" THEN Err(FromUreqError(resp.read))
    ELSE Ok(Some(resp.body))

\* the result built with hostname and local_hostname exchanged
InstanceMetadataSwapped(frame, public_hostname) ==
    [region |-> frame.region,
     availability_zone |-> frame.availability_zone,
     instance_id |-> frame.instance_id,
     account_id |-> frame.account_id,
     ami_id |-> frame.ami_id,
     instance_type |-> frame.instance_type,
     hostname |-> frame.local_hostname,
     local_hostname |-> frame.hostname,
     public_hostname |-> public_hostname]

\* struct InstanceMetadata, built at lib.rs 261-271
InstanceMetadata(frame, public_hostname) ==
    [region |-> frame.region,
     availability_zone |-> frame.availability_zone,
     instance_id |-> frame.instance_id,
     account_id |-> frame.account_id,
     ami_id |-> frame.ami_id,
     instance_type |-> frame.instance_type,
     hostname |-> frame.hostname,
     local_hostname |-> frame.local_hostname,
     public_hostname |-> public_hostname]

(***************************************************************************)
(* Actions: the steps of InstanceMetadataClient::get (lib.rs 170-274)      *)
(***************************************************************************)
\* get() returns r: its bindings are dropped
Return(r) ==
    /\ pc' = "idle"
    /\ ret' = <<r>>
    /\ locals' = <<>>

\* get() binds name and goes on to the next request
Proceed(name, v, next) ==
    /\ pc' = next
    /\ locals' = Bind(locals, name, v)
    /\ UNCHANGED ret

\* the GET of a field sent without the token header
SendGetWithoutToken(field, resp) ==
    requests' = Append(requests, Exchange("GET", UrlOf(field), None, resp))

\* the GET of a field, with the token header of lib.rs 175
SendGet(field, resp) ==
    requests' = Append(requests,
                       Exchange("GET", UrlOf(field), Some(locals.token), resp))

\* a caller invokes get() on the client
StartGet ==
    /\ pc = "idle"
    /\ calls < MaxCalls
    /\ pc' = "token"
    /\ calls' = calls + 1
    /\ ret' = <<>>
    /\ requests' = <<>>
    /\ locals' = <<>>
    /\ UNCHANGED <<issued, puts, input, out>>

\* get() with the token kept from an earlier call: no PUT once one is known
GetTokenCached ==
    /\ pc = "token"
    /\ IF issued # <<>>
       THEN /\ Proceed("token", issued[Len(issued)], "InstanceId")
            /\ UNCHANGED <<requests, puts, issued>>
       ELSE \E resp \in Responses(Tokens) :
              /\ requests' = Append(requests,
                                    Exchange("PUT", TOKEN_API_URL, None, resp))
              /\ puts' = puts + 1
              /\ issued' = IF resp.call = "Ok" /\ resp.read = "Ok"
                           THEN Append(issued, resp.body) ELSE issued
              /\ LET r == get_token(resp)
                 IN  IF r.ok THEN Proceed("token", r.val, "InstanceId")
                             ELSE Return(Err(r.err))
    /\ UNCHANGED <<calls, input, out>>

\* let token = self.get_token()?;
GetToken ==
    /\ pc = "token"
    /\ \E resp \in Responses(Tokens) :
         /\ requests' = Append(requests, Exchange("PUT", TOKEN_API_URL, None, resp))
         /\ puts' = puts + 1
         /\ issued' = IF resp.call = "Ok" /\ resp.read = "Ok"
                      THEN Append(issued, resp.body) ELSE issued
         /\ LET r == get_token(resp)
            IN  IF r.ok THEN Proceed("token", r.val, "InstanceId")
                        ELSE Return(Err(r.err))
    /\ UNCHANGED <<calls, input, out>>

\* the plain field fetch that tries a failed fetch a second time
FetchPlainRetryOnce(field, name, next) ==
    /\ pc = field
    /\ \E resp \in Responses(Bodies) :
         /\ SendGet(field, resp)
         /\ LET r == FieldResult(field, resp)
                first == \A i \in DOMAIN requests : requests[i].url # UrlOf(field)
            IN  IF r.ok THEN Proceed(name, r.val, next)
                ELSE IF first THEN UNCHANGED <<pc, locals, ret>>
                ELSE Return(Err(r.err))
    /\ UNCHANGED <<issued, calls, puts, input, out>>

\* a field whose body is bound as it is (lib.rs 172-180, 195-203, 219-247)
FetchPlain(field, name, next) ==
    /\ pc = field
    /\ \E resp \in Responses(Bodies) :
         /\ SendGet(field, resp)
         /\ LET r == FieldResult(field, resp)
            IN  IF r.ok THEN Proceed(name, r.val, next)
                        ELSE Return(Err(r.err))
    /\ UNCHANGED <<issued, calls, puts, input, out>>

FetchInstanceId == FetchPlain("InstanceId", "instance_id", "AccountId")

\* lib.rs 182-193
FetchAccountId ==
    /\ pc = "AccountId"
    /\ \E resp \in Responses(IdentityDocuments) :
         /\ SendGet("AccountId", resp)
         /\ LET r == FieldResult("AccountId", resp)
                a == identity_credentials_to_account_id(r.val)
            IN  IF ~r.ok THEN Return(Err(r.err))
                ELSE IF ~a.ok THEN Return(Err(a.err))
                ELSE Proceed("account_id", a.val, "AmiId")
    /\ UNCHANGED <<issued, calls, puts, input, out>>

FetchAmiId == FetchPlain("AmiId", "ami_id", "AvailabilityZone")

\* lib.rs 205-217
FetchAvailabilityZone ==
    /\ pc = "AvailabilityZone"
    /\ \E resp \in Responses(ZoneBodies) :
         /\ SendGet("AvailabilityZone", resp)
         /\ LET r == FieldResult("AvailabilityZone", resp)
                region == availability_zone_to_region(r.val)
            IN  IF ~r.ok THEN Return(Err(r.err))
                ELSE IF ~region.ok THEN Return(Err(region.err))
                ELSE /\ pc' = "InstanceType"
                     /\ locals' = Bind(Bind(locals, "availability_zone", r.val),
                                       "region", region.val)
                     /\ UNCHANGED ret
    /\ UNCHANGED <<issued, calls, puts, input, out>>

FetchInstanceType == FetchPlain("InstanceType", "instance_type", "Hostname")

FetchHostname == FetchPlain("Hostname", "hostname", "LocalHostname")

\* local_hostname taken from hostname, its request left out
FetchLocalHostnameFromHostname ==
    /\ pc = "LocalHostname"
    /\ Proceed("local_hostname", locals.hostname, "PublicHostname")
    /\ UNCHANGED <<requests, issued, calls, puts, input, out>>

FetchLocalHostname == FetchPlain("LocalHostname", "local_hostname", "PublicHostname")

\* lib.rs 251-273: the optional field, then the result is built and returned
FetchPublicHostname ==
    /\ pc = "PublicHostname"
    /\ \E resp \in Responses(Bodies) :
         /\ SendGet("PublicHostname", resp)
         /\ LET r == PublicHostnameResult(resp)
            IN  IF r.ok THEN Return(Ok(InstanceMetadata(locals, r.val)))
                        ELSE Return(Err(r.err))
    /\ UNCHANGED <<issued, calls, puts, input, out>>

Next ==
    \/ StartGet
    \/ GetToken
    \/ FetchInstanceId
    \/ FetchAccountId
    \/ FetchAmiId
    \/ FetchAvailabilityZone
    \/ FetchInstanceType
    \/ FetchHostname
    \/ FetchLocalHostname
    \/ FetchPublicHostname

Spec == Init /\ [][Next]_vars

\* a step of the get() call in progress
GetStep ==
    \/ GetToken
    \/ FetchInstanceId
    \/ FetchAccountId
    \/ FetchAmiId
    \/ FetchAvailabilityZone
    \/ FetchInstanceType
    \/ FetchHostname
    \/ FetchLocalHostname
    \/ FetchPublicHostname

\* Every request of a call is a blocking call on the agent, which bounds it
\* by timeout_connect and timeout_global (lib.rs 147-151): a call in progress
\* always takes its next step.
SpecLive == Init /\ [][Next]_vars /\ WF_vars(GetStep)

(***************************************************************************)
(* Unit behaviours of the two pure functions: the argument is drawn in the *)
(* initial state and one step applies the function to it.                  *)
(***************************************************************************)
Letters ==
    {"a","b","c","d","e","f","g","h","i","j","k","l","m",
     "n","o","p","q","r","s","t","u","v","w","x","y","z"}

\* a zone name: entry `region` of the list, followed by one letter
ZoneOf(in) == Append(REGIONS[in.region], in.suffix)

InitRegion ==
    /\ pc = "idle" /\ locals = <<>> /\ ret = <<>> /\ requests = <<>>
    /\ issued = <<>> /\ calls = 0 /\ puts = 0
    /\ input \in [region : 1..Len(REGIONS), suffix : Letters]
    /\ out = <<>>

ApplyRegion ==
    /\ out = <<>>
    /\ out' = <<availability_zone_to_region(ZoneOf(input))>>
    /\ UNCHANGED <<pc, locals, ret, requests, issued, calls, puts, input>>

NextRegion == ApplyRegion

SpecRegion == InitRegion /\ [][NextRegion]_vars

\* the members an identity document may hold besides AccountId
OtherMembers ==
    {<<"\"","O","t","h","e","r","F","i","e","l","d","\"",":","1">>,
     <<"\"","C","o","d","e","\"",":","\"","S","u","c","c","e","s","s","\"">>,
     <<"\"","I","n","f","o","\"",":","{","\"","A","c","c","o","u","n","t","I","d","\"",":","\"","9","\"","}">>,
     <<"\"","a","c","c","o","u","n","t","i","d","\"",":","\"","0","\"">>}

\* the account ids of the documents
AccountIds == {<<"1","2","3","4","5","6","7","8","9","0","1","2">>, <<>>, <<"7">>}

\* the longest run of other members before, and after, the AccountId member
MaxOthers == 1

RECURSIVE SeqsUpTo(_, _)
SeqsUpTo(S, n) ==
    IF n = 0 THEN {<<>>}
    ELSE LET shorter == SeqsUpTo(S, n - 1)
         IN  shorter \cup {Append(q, x) : q \in shorter, x \in S}

\* "AccountId":"<id>"
AccountIdMember(id) == <<"\"">> \o AccountIdKey \o <<"\"", ":", "\"">> \o id \o <<"\"">>

\* the members, separated by commas
RECURSIVE JoinMembers(_)
JoinMembers(ms) ==
    IF ms = <<>> THEN <<>>
    ELSE IF Len(ms) = 1 THEN ms[1]
    ELSE ms[1] \o <<",">> \o JoinMembers(Tail(ms))

\* the text of the object that holds before, the AccountId member and after
DocumentOf(in) ==
    <<"{">> \o JoinMembers(in.before \o <<AccountIdMember(in.acct)>> \o in.after)
            \o <<"}">>

InitAccountId ==
    /\ pc = "idle" /\ locals = <<>> /\ ret = <<>> /\ requests = <<>>
    /\ issued = <<>> /\ calls = 0 /\ puts = 0
    /\ input \in [before : SeqsUpTo(OtherMembers, MaxOthers),
                  acct : AccountIds,
                  after : SeqsUpTo(OtherMembers, MaxOthers)]
    /\ out = <<>>

ApplyAccountId ==
    /\ out = <<>>
    /\ out' = <<identity_credentials_to_account_id(DocumentOf(input))>>
    /\ UNCHANGED <<pc, locals, ret, requests, issued, calls, puts, input>>

NextAccountId == ApplyAccountId

SpecAccountId == InitAccountId /\ [][NextAccountId]_vars

(***************************************************************************)
(* Properties                                                              *)
(***************************************************************************)
MandatoryFields ==
    {"InstanceId", "AccountId", "AmiId", "AvailabilityZone",
     "InstanceType", "Hostname", "LocalHostname"}

Returned == ret # <<>>

ReturnedOk == ret # <<>> /\ ret[1].ok

ReturnedErr(kind) == ret # <<>> /\ ~ret[1].ok /\ ret[1].err.kind = kind

\* the request was sent and its whole body was read
Delivered(x) == x.call = "Ok" /\ x.read = "Ok"

\* exchange i of the call is the GET of the field
IsGetOf(i, field) ==
    /\ requests[i].method = "GET"
    /\ requests[i].url = UrlOf(field)

\* C1: if the token request fails (the PUT itself, or reading its body),
\* get() returns an HttpRequest error and the PUT is the only request the
\* call has issued: no field GET follows it.
C1_TokenFailureIsTransportError ==
    (requests # <<>> /\ requests[1].method = "PUT" /\ ~Delivered(requests[1]))
    => /\ Len(requests) = 1
       /\ pc = "idle"
       /\ ReturnedErr("HttpRequest")
       /\ ret[1].err.arg \in CallErrors \cup ReadErrors

C1_Witness ==
    /\ Len(requests) = 1
    /\ requests[1].method = "PUT"
    /\ requests[1].call = "Timeout"
    /\ ReturnedErr("HttpRequest")

C4_TokenPerCall ==
    /\ puts = (IF pc = "token" THEN calls - 1 ELSE calls)
    /\ requests # <<>> => requests[1].method = "PUT"
    /\ \A i \in DOMAIN requests :
          i > 1 => /\ requests[i].method = "GET"
                   /\ Delivered(requests[1])
                   /\ requests[i].token = Some(requests[1].body)
    /\ \A i \in DOMAIN requests : \A k \in DOMAIN issued :
          (i > 1 /\ k < Len(issued) /\ issued[k] # issued[Len(issued)])
          => requests[i].token # Some(issued[k])

C4_Witness ==
    /\ calls = 2
    /\ puts = 2
    /\ Len(issued) = 2
    /\ issued[1] # issued[2]
    /\ Len(requests) = 9
    /\ requests[9].token = Some(issued[2])

\* the exchange of the call that fetched the field
ExchangeOf(field) ==
    CHOOSE x \in {requests[i] : i \in DOMAIN requests} : x.url = UrlOf(field)

EmptyAccountIdDocument ==
    <<"{","\"","A","c","c","o","u","n","t","I","d","\"",":","\"","\"","}">>

\* C5 as claimed: every mandatory field of a returned result is non-empty.
C5_MandatoryFieldsNonEmpty ==
    ReturnedOk
    => /\ ret[1].val.availability_zone # <<>>
       /\ ret[1].val.instance_id # <<>>
       /\ ret[1].val.account_id # <<>>
       /\ ret[1].val.ami_id # <<>>
       /\ ret[1].val.instance_type # <<>>
       /\ ret[1].val.hostname # <<>>
       /\ ret[1].val.local_hostname # <<>>

\* C5 amended: in a returned result availability_zone is non-empty, and the
\* other mandatory fields are the texts the service delivered, unvalidated:
\* instance_id, ami_id, instance_type, hostname and local_hostname are the
\* bodies of their requests, empty when the body was empty, and account_id
\* is empty exactly when the document's AccountId is the empty string.
C5_MandatoryFieldsAsDelivered ==
    ReturnedOk
    => /\ ret[1].val.availability_zone # <<>>
       /\ ret[1].val.availability_zone = ExchangeOf("AvailabilityZone").body
       /\ ret[1].val.instance_id = ExchangeOf("InstanceId").body
       /\ ret[1].val.ami_id = ExchangeOf("AmiId").body
       /\ ret[1].val.instance_type = ExchangeOf("InstanceType").body
       /\ ret[1].val.hostname = ExchangeOf("Hostname").body
       /\ ret[1].val.local_hostname = ExchangeOf("LocalHostname").body
       /\ (ret[1].val.account_id = <<>>)
          <=> (ExchangeOf("AccountId").body = EmptyAccountIdDocument)

C5_Witness ==
    /\ ReturnedOk
    /\ ret[1].val.instance_id = <<>>
    /\ ret[1].val.account_id = <<>>
    /\ ret[1].val.hostname # <<>>
    /\ ret[1].val.local_hostname = <<>>

\* C6: for every entry R of the region list and every suffix letter c,
\* availability_zone_to_region(R + c) returns R itself.
C6_RegionOfZone ==
    out # <<>> => (out[1].ok /\ out[1].val = REGIONS[input.region])

C6_Witness ==
    /\ out # <<>>
    /\ input.region = 19
    /\ input.suffix = "b"
    /\ out[1].ok
    /\ out[1].val = <<"c","n","-","n","o","r","t","h","w","e","s","t","-","1">>

\* the zone starts with none of the region codes
NoKnownPrefix(zone) ==
    \A i \in DOMAIN REGIONS : ~StartsWith(zone, REGIONS[i])

\* C7: when the delivered availability zone starts with none of the region
\* codes, the request is the last of the call and get() has returned
\* UnknownAvailabilityZone carrying exactly that zone text, not a result.
C7_UnknownZoneAborts ==
    \A i \in DOMAIN requests :
        (/\ IsGetOf(i, "AvailabilityZone")
         /\ Delivered(requests[i])
         /\ NoKnownPrefix(requests[i].body))
        => /\ i = Len(requests)
           /\ pc = "idle"
           /\ ReturnedErr("UnknownAvailabilityZone")
           /\ ret[1].err.arg = requests[i].body

C7_Witness ==
    /\ Len(requests) = 5
    /\ IsGetOf(5, "AvailabilityZone")
    /\ requests[5].body = <<"m","a","r","s","-","w","e","s","t","-","1","a">>
    /\ ReturnedErr("UnknownAvailabilityZone")
    /\ ret[1].err.arg = <<"m","a","r","s","-","w","e","s","t","-","1","a">>

\* C8: for an object whose top-level AccountId member is a string, whatever
\* members stand before and after it, account-id extraction returns exactly
\* that string.
C8_AccountIdExtracted ==
    out # <<>> => (out[1].ok /\ out[1].val = input.acct)

C8_Witness ==
    /\ out # <<>>
    /\ DocumentOf(input) = <<"{","\"","A","c","c","o","u","n","t","I","d","\"",":","\"","1","2","3","4","5","6","7","8","9","0","1","2","\"",",","\"","O","t","h","e","r","F","i","e","l","d","\"",":","1","}">>
    /\ out[1].ok
    /\ out[1].val = <<"1","2","3","4","5","6","7","8","9","0","1","2">>

\* C9: when the delivered identity document is not valid JSON, has no
\* top-level AccountId member, or has one that is not a string, the request
\* is the last of the call and get() has returned a JsonError (for the last
\* two, "Missing AccountId field"), not a result.
C9_BadDocumentAborts ==
    \A i \in DOMAIN requests :
        (/\ IsGetOf(i, "AccountId")
         /\ Delivered(requests[i])
         /\ requests[i].body \in
              InvalidDocuments \cup MissingDocuments \cup NonStringDocuments)
        => /\ i = Len(requests)
           /\ pc = "idle"
           /\ ReturnedErr("JsonError")
           /\ (requests[i].body \in MissingDocuments \cup NonStringDocuments)
              <=> (ret[1].err.arg = "Missing AccountId field")

C9_Witness ==
    /\ Len(requests) = 3
    /\ IsGetOf(3, "AccountId")
    /\ requests[3].body \in NonStringDocuments
    /\ ReturnedErr("JsonError")
    /\ ret[1].err.arg = "Missing AccountId field"

\* C10 as claimed: get() returns HttpRequest only for a failure of the token
\* request; a field fetch that fails in any way (the request, or reading the
\* body) ends in NotFound for a mandatory field and in an absent
\* public_hostname for PublicHostname.
C10_HttpRequestOnlyFromToken ==
    /\ ReturnedErr("HttpRequest") => Len(requests) = 1
    /\ \A i \in DOMAIN requests :
          (requests[i].method = "GET" /\ ~Delivered(requests[i]))
          => IF requests[i].url = UrlOf("PublicHostname")
             THEN ReturnedOk /\ ret[1].val.public_hostname = None
             ELSE ReturnedErr("NotFound")

\* the URLs of the requests of one call, in the order of the claim
RequestOrder ==
    <<TOKEN_API_URL, UrlOf("InstanceId"), UrlOf("AccountId"), UrlOf("AmiId"),
      UrlOf("AvailabilityZone"), UrlOf("InstanceType"), UrlOf("Hostname"),
      UrlOf("LocalHostname"), UrlOf("PublicHostname")>>

\* the position in RequestOrder of the request get() issues at pc
PositionOf(at) ==
    CASE at = "token" -> 1
      [] at = "InstanceId" -> 2
      [] at = "AccountId" -> 3
      [] at = "AmiId" -> 4
      [] at = "AvailabilityZone" -> 5
      [] at = "InstanceType" -> 6
      [] at = "Hostname" -> 7
      [] at = "LocalHostname" -> 8
      [] at = "PublicHostname" -> 9

\* C11: the requests of a call are the token PUT, then the GETs of
\* InstanceId, AccountId, AmiId, AvailabilityZone, InstanceType, Hostname,
\* LocalHostname and PublicHostname, in that order; every request but the
\* last one issued was answered and its body read, and the request the call
\* issues next is the one that follows the answered ones.
C11_FixedRequestOrder ==
    /\ Len(requests) <= Len(RequestOrder)
    /\ \A i \in DOMAIN requests :
          /\ requests[i].url = RequestOrder[i]
          /\ requests[i].method = (IF i = 1 THEN "PUT" ELSE "GET")
          /\ i < Len(requests) => Delivered(requests[i])
    /\ pc # "idle" => /\ PositionOf(pc) = Len(requests) + 1
                      /\ \A i \in DOMAIN requests : Delivered(requests[i])

C11_Witness ==
    /\ Len(requests) = 9
    /\ requests[4].url = UrlOf("AmiId")
    /\ requests[9].url = UrlOf("PublicHostname")
    /\ ReturnedOk

\* the step that issued exchange x failed: the request or the reading of its
\* body failed, the identity document yields no account id, or the zone
\* starts with no known region
FailedMandatoryStep(x) ==
    /\ x.method = "GET"
    /\ x.url # UrlOf("PublicHostname")
    /\ \/ ~Delivered(x)
       \/ x.url = UrlOf("AccountId") /\ x.body \notin GoodDocuments
       \/ x.url = UrlOf("AvailabilityZone") /\ NoKnownPrefix(x.body)

\* the error of the failed step that issued exchange x
IsErrorOfStep(e, x) ==
    IF x.call # "Ok" THEN e.kind = "NotFound" /\ e.arg = x.url
    ELSE IF x.read # "Ok" THEN e.kind = "HttpRequest" /\ e.arg = x.read
    ELSE IF x.url = UrlOf("AccountId") THEN e.kind = "JsonError"
    ELSE e.kind = "UnknownAvailabilityZone" /\ e.arg = x.body

\* C12: get() stops at the first failing mandatory step: the failed step's
\* request is the last request of the call, every request before it belongs
\* to a step that succeeded, and the error returned is the error of that
\* step.
C12_StopsAtFirstFailure ==
    \A i \in DOMAIN requests :
        FailedMandatoryStep(requests[i])
        => /\ i = Len(requests)
           /\ pc = "idle"
           /\ Returned
           /\ ~ret[1].ok
           /\ IsErrorOfStep(ret[1].err, requests[i])
           /\ \A j \in 1..(i - 1) :
                 Delivered(requests[j]) /\ ~FailedMandatoryStep(requests[j])

C12_Witness ==
    /\ Len(requests) = 5
    /\ IsGetOf(5, "AvailabilityZone")
    /\ requests[5].call = "Io"
    /\ ReturnedErr("NotFound")
    /\ ret[1].err.arg = UrlOf("AvailabilityZone")

\* the positions of the call's requests made with the method
RequestsBy(method) == {i \in DOMAIN requests : requests[i].method = method}

ErrorKinds ==
    {"HttpRequest", "IoError", "UnknownAvailabilityZone", "JsonError", "NotFound"}

ResultFields ==
    {"region", "availability_zone", "instance_id", "account_id", "ami_id",
     "instance_type", "hostname", "local_hostname", "public_hostname"}

\* what C13 says of every state of a call
NoRetryInCall ==
    /\ pc # "token" /\ calls > 0 => Cardinality(RequestsBy("PUT")) = 1
    /\ Cardinality(RequestsBy("PUT")) <= 1
    /\ Cardinality(RequestsBy("GET")) <= 8
    /\ \A i, j \in DOMAIN requests : i # j => requests[i].url # requests[j].url
    /\ Len(ret) <= 1
    /\ (pc = "idle" /\ calls > 0) <=> Returned
    /\ Returned =>
          IF ret[1].ok
          THEN DOMAIN ret[1] = {"ok", "val"} /\ DOMAIN ret[1].val = ResultFields
          ELSE DOMAIN ret[1] = {"ok", "err"} /\ ret[1].err.kind \in ErrorKinds

\* C13: no step is retried: a call issues exactly one token PUT and at most
\* eight field GETs, no URL twice, every call in progress comes to its end,
\* and it ends with one outcome, a complete InstanceMetadata or one error.
C13_NoRetryAndTermination ==
    /\ []NoRetryInCall
    /\ (pc # "idle") ~> (pc = "idle")

C13_Witness ==
    /\ ReturnedOk
    /\ Cardinality(RequestsBy("PUT")) = 1
    /\ Cardinality(RequestsBy("GET")) = 8
    /\ calls = 2

\* C14: every field GET of a call carries, in its token header, exactly the
\* body delivered by the token PUT of that call; the token bound by the call
\* stays that body through all the fetches, and no GET goes without it.
C14_EveryGetCarriesCallToken ==
    /\ \A i \in RequestsBy("GET") :
          /\ requests[i].token # None
          /\ requests[1].method = "PUT"
          /\ Delivered(requests[1])
          /\ requests[i].token = Some(requests[1].body)
    /\ pc \notin {"idle", "token"} => locals.token = requests[1].body

C14_Witness ==
    /\ Len(requests) = 9
    /\ requests[1].body = <<"t","2">>
    /\ requests[2].token = Some(<<"t","2">>)
    /\ requests[9].token = Some(<<"t","2">>)

(***************************************************************************)
(* Two callers share one client (get takes &self) and run get() once each, *)
(* their requests interleaved in any order.  In these behaviours pc,       *)
(* locals, ret and requests hold one value per caller.  The client has no  *)
(* field but the agent, so nothing of a call is kept outside its bindings. *)
(***************************************************************************)
Callers == {1, 2}

\* the bodies the service may return to the callers for a plain-text field
ConcurrentBodies(field) ==
    IF field \in {"InstanceId", "PublicHostname"}
    THEN Bodies
    ELSE {<<"i","p","-","1","0","-","0","-","0","-","1">>}

ConcurrentDocuments ==
    {<<"{","\"","A","c","c","o","u","n","t","I","d","\"",":","\"","7","\"","}">>,
     <<"{","}">>}

ConcurrentZones ==
    {<<"u","s","-","e","a","s","t","-","1","a">>,
     <<"m","a","r","s","-","w","e","s","t","-","1","a">>}

InitConcurrent ==
    /\ pc = [c \in Callers |-> "idle"]
    /\ locals = [c \in Callers |-> <<>>]
    /\ ret = [c \in Callers |-> <<>>]
    /\ requests = [c \in Callers |-> <<>>]
    /\ issued = <<>>
    /\ calls = 0
    /\ puts = 0
    /\ input = <<>>
    /\ out = <<>>

CallerReturn(c, r) ==
    /\ pc' = [pc EXCEPT ![c] = "idle"]
    /\ ret' = [ret EXCEPT ![c] = <<r>>]
    /\ locals' = [locals EXCEPT ![c] = <<>>]

CallerProceed(c, name, v, next) ==
    /\ pc' = [pc EXCEPT ![c] = next]
    /\ locals' = [locals EXCEPT ![c] = Bind(@, name, v)]
    /\ UNCHANGED ret

\* the GET sent with the token most recently delivered to the client,
\* whichever call obtained it
CallerSendGetLatestToken(c, field, resp) ==
    requests' = [requests EXCEPT ![c] =
                   Append(@, Exchange("GET", UrlOf(field),
                                      Some(issued[Len(issued)]), resp))]

\* the GET of a field, with the token bound by the caller's own call
CallerSendGet(c, field, resp) ==
    requests' = [requests EXCEPT ![c] =
                   Append(@, Exchange("GET", UrlOf(field),
                                      Some(locals[c].token), resp))]

\* caller c invokes get()
CallerStartGet(c) ==
    /\ pc[c] = "idle"
    /\ requests[c] = <<>>
    /\ pc' = [pc EXCEPT ![c] = "token"]
    /\ calls' = calls + 1
    /\ UNCHANGED <<locals, ret, requests, issued, puts, input, out>>

CallerGetToken(c) ==
    /\ pc[c] = "token"
    /\ \E resp \in Responses(Tokens) :
         /\ requests' = [requests EXCEPT ![c] =
                           Append(@, Exchange("PUT", TOKEN_API_URL, None, resp))]
         /\ puts' = puts + 1
         /\ issued' = IF resp.call = "Ok" /\ resp.read = "Ok"
                      THEN Append(issued, resp.body) ELSE issued
         /\ LET r == get_token(resp)
            IN  IF r.ok THEN CallerProceed(c, "token", r.val, "InstanceId")
                        ELSE CallerReturn(c, Err(r.err))
    /\ UNCHANGED <<calls, input, out>>

CallerFetchPlain(c, field, name, next) ==
    /\ pc[c] = field
    /\ \E resp \in Responses(ConcurrentBodies(field)) :
         /\ CallerSendGet(c, field, resp)
         /\ LET r == FieldResult(field, resp)
            IN  IF r.ok THEN CallerProceed(c, name, r.val, next)
                        ELSE CallerReturn(c, Err(r.err))
    /\ UNCHANGED <<issued, calls, puts, input, out>>

CallerFetchAccountId(c) ==
    /\ pc[c] = "AccountId"
    /\ \E resp \in Responses(ConcurrentDocuments) :
         /\ CallerSendGet(c, "AccountId", resp)
         /\ LET r == FieldResult("AccountId", resp)
                a == identity_credentials_to_account_id(r.val)
            IN  IF ~r.ok THEN CallerReturn(c, Err(r.err))
                ELSE IF ~a.ok THEN CallerReturn(c, Err(a.err))
                ELSE CallerProceed(c, "account_id", a.val, "AmiId")
    /\ UNCHANGED <<issued, calls, puts, input, out>>

CallerFetchAvailabilityZone(c) ==
    /\ pc[c] = "AvailabilityZone"
    /\ \E resp \in Responses(ConcurrentZones) :
         /\ CallerSendGet(c, "AvailabilityZone", resp)
         /\ LET r == FieldResult("AvailabilityZone", resp)
                region == availability_zone_to_region(r.val)
            IN  IF ~r.ok THEN CallerReturn(c, Err(r.err))
                ELSE IF ~region.ok THEN CallerReturn(c, Err(region.err))
                ELSE /\ pc' = [pc EXCEPT ![c] = "InstanceType"]
                     /\ locals' = [locals EXCEPT ![c] =
                                     Bind(Bind(@, "availability_zone", r.val),
                                          "region", region.val)]
                     /\ UNCHANGED ret
    /\ UNCHANGED <<issued, calls, puts, input, out>>

CallerFetchPublicHostname(c) ==
    /\ pc[c] = "PublicHostname"
    /\ \E resp \in Responses(ConcurrentBodies("PublicHostname")) :
         /\ CallerSendGet(c, "PublicHostname", resp)
         /\ LET r == PublicHostnameResult(resp)
            IN  IF r.ok
                THEN CallerReturn(c, Ok(InstanceMetadata(locals[c], r.val)))
                ELSE CallerReturn(c, Err(r.err))
    /\ UNCHANGED <<issued, calls, puts, input, out>>

NextConcurrent ==
    \E c \in Callers :
        \/ CallerStartGet(c)
        \/ CallerGetToken(c)
        \/ CallerFetchPlain(c, "InstanceId", "instance_id", "AccountId")
        \/ CallerFetchAccountId(c)
        \/ CallerFetchPlain(c, "AmiId", "ami_id", "AvailabilityZone")
        \/ CallerFetchAvailabilityZone(c)
        \/ CallerFetchPlain(c, "InstanceType", "instance_type", "Hostname")
        \/ CallerFetchPlain(c, "Hostname", "hostname", "LocalHostname")
        \/ CallerFetchPlain(c, "LocalHostname", "local_hostname", "PublicHostname")
        \/ CallerFetchPublicHostname(c)

SpecConcurrent == InitConcurrent /\ [][NextConcurrent]_vars

\* the answers caller c has received, in order
AnswersTo(c) ==
    [i \in DOMAIN requests[c] |->
        [call |-> requests[c][i].call, read |-> requests[c][i].read,
         body |-> requests[c][i].body]]

\* what C15 says of every state of two concurrent calls
CallsSelfContained ==
    /\ \A c \in Callers : \A i \in DOMAIN requests[c] :
          /\ requests[c][i].url = RequestOrder[i]
          /\ i < Len(requests[c]) => Delivered(requests[c][i])
          /\ i > 1 => requests[c][i].token = Some(requests[c][1].body)
    /\ \A c \in Callers :
          pc[c] \notin {"idle", "token"} => locals[c].token = requests[c][1].body
    /\ \A c, d \in Callers :
          (ret[c] # <<>> /\ ret[d] # <<>> /\ AnswersTo(c) = AnswersTo(d))
          => ret[c] = ret[d]

\* a step that adds a request of one caller changes nothing of the other
StepOfOneCaller ==
    \A c, d \in Callers :
        (c # d /\ requests'[c] # requests[c])
        => /\ pc'[d] = pc[d]
           /\ locals'[d] = locals[d]
           /\ ret'[d] = ret[d]
           /\ requests'[d] = requests[d]

\* C15: when two get() calls run concurrently on one client, under every
\* interleaving each call follows its own request sequence and sends only
\* the token its own PUT delivered, a step of one call changes nothing of
\* the other, and two calls that received the same answers have the same
\* outcome: the outcome depends on the call's own answers alone.
C15_ConcurrentCallsIndependent ==
    /\ []CallsSelfContained
    /\ [][StepOfOneCaller]_vars

C15_Witness ==
    /\ pc[1] = "PublicHostname"
    /\ ret[2] # <<>>
    /\ ~ret[2][1].ok
    /\ Len(requests[2]) = 3
    /\ Len(issued) = 2
    /\ issued[1] = requests[2][1].body
    /\ issued[2] = requests[1][1].body
    /\ issued[1] # issued[2]
    /\ requests[1][8].token = Some(issued[2])

\* the entries of the list the zone starts with
MatchingEntries(zone) ==
    {i \in DOMAIN REGIONS : StartsWith(zone, REGIONS[i])}

\* C16: no entry of the region list is a prefix of another entry, so a zone
\* starts with at most one entry, and the region derived is that entry
\* wherever it stands in the list.
C16_NoEntryPrefixOfAnother ==
    /\ \A i, j \in DOMAIN REGIONS :
          i # j => ~StartsWith(REGIONS[i], REGIONS[j])
    /\ Cardinality(MatchingEntries(ZoneOf(input))) <= 1
    /\ out # <<>> =>
          \A i \in MatchingEntries(ZoneOf(input)) :
              out[1].ok /\ out[1].val = REGIONS[i]

C16_Witness ==
    /\ out # <<>>
    /\ input.region = 11
    /\ MatchingEntries(ZoneOf(input)) = {11}
    /\ out[1].ok
    /\ out[1].val = <<"a","p","-","s","o","u","t","h","e","a","s","t","-","1">>

\* C17: in every result returned, region is an entry of the region list and
\* availability_zone, the body delivered for AvailabilityZone in that call,
\* starts with it; while the call goes on the bound region likewise belongs
\* to the bound zone.
C17_RegionBelongsToZone ==
    /\ ReturnedOk =>
          /\ \E i \in DOMAIN REGIONS : ret[1].val.region = REGIONS[i]
          /\ StartsWith(ret[1].val.availability_zone, ret[1].val.region)
          /\ ret[1].val.availability_zone = ExchangeOf("AvailabilityZone").body
    /\ (pc # "idle" /\ "region" \in DOMAIN locals) =>
          /\ \E i \in DOMAIN REGIONS : locals.region = REGIONS[i]
          /\ StartsWith(locals.availability_zone, locals.region)

C17_Witness ==
    /\ ReturnedOk
    /\ ret[1].val.region = <<"c","n","-","n","o","r","t","h","w","e","s","t","-","1">>
    /\ ret[1].val.availability_zone =
          <<"c","n","-","n","o","r","t","h","w","e","s","t","-","1","b">>

\* C18: a result is returned only when all nine requests of the call were
\* issued: the token PUT and the seven mandatory GETs, each answered and
\* read, and the PublicHostname GET last.
C18_ResultAfterAllRequests ==
    ReturnedOk =>
       /\ Len(requests) = 9
       /\ \A i \in 1..9 : requests[i].url = RequestOrder[i]
       /\ \A i \in 1..8 : Delivered(requests[i])
       /\ \A field \in MetadataUrls : \E i \in 2..9 : IsGetOf(i, field)

C18_Witness ==
    /\ ReturnedOk
    /\ Len(requests) = 9
    /\ requests[9].call = "Ok"
    /\ requests[9].read = "Ok"
    /\ ret[1].val.public_hostname # None

\* C19: the eight MetadataUrls variants map to eight different URLs, none of
\* them the token URL, so the URL of a NotFound error names one field only.
C19_UrlsDistinct ==
    /\ \A f, g \in MetadataUrls : f # g => UrlOf(f) # UrlOf(g)
    /\ \A f \in MetadataUrls : UrlOf(f) # TOKEN_API_URL
    /\ Cardinality({UrlOf(f) : f \in MetadataUrls}) = 8
    /\ ReturnedErr("NotFound") =>
          Cardinality({f \in MetadataUrls : UrlOf(f) = ret[1].err.arg}) = 1

C19_Witness ==
    /\ ReturnedErr("NotFound")
    /\ ret[1].err.arg = UrlOf("Hostname")
    /\ {f \in MetadataUrls : UrlOf(f) = ret[1].err.arg} = {"Hostname"}

====
